---- MODULE Spec2Model ----
(***************************************************************************)
(* Model of the Vultr cluster provisioning pipeline                         *)
(* (providers/vultr/create.go, CreateVultrCluster).                         *)
(*                                                                         *)
(* One run of CreateVultrCluster is a program counter walking the function *)
(* body.  Every call the function makes is one action; the outcome of the  *)
(* call (nil or an error) is the action's input.  The ClusterRecord kept   *)
(* by the record store, the two stop channels, the deferred calls and the  *)
(* telemetry transmissions are the state.                                  *)
(***************************************************************************)
EXTENDS Naturals, Sequences, FiniteSets

VARIABLES
    pc,                              \* the statement CreateVultrCluster is about to run
    record,                          \* the ClusterRecord stored under ctrl.ClusterName
    err,                             \* the Go local err
    retv,                            \* the value CreateVultrCluster returned ("running" before)
    trace,                           \* history: every call made so far with the error it returned
    handled,                         \* history: the messages given to ctrl.HandleError
    vaultStopChannel,                \* the vault port-forward's stop channel
    cluster1KubefirstApiStopChannel, \* the platform API port-forward's stop channel
    segmentClient,                   \* the telemetry client: "none", "open", "closed"
    telemetry,                       \* history: the metrics transmitted
    K1_LOCAL_DEBUG,                  \* whether the environment variable is non-empty
    secretsFilesToRestore            \* the Go local: how many entries os.ReadDir returned

pipelineVars == <<pc, record, err, retv, trace, handled, vaultStopChannel,
                  cluster1KubefirstApiStopChannel, segmentClient, telemetry,
                  K1_LOCAL_DEBUG, secretsFilesToRestore>>

----------------------------------------------------------------------------
(* Bounds and values *)

\* how many distinct error messages a failing call may carry
NumErrors == 2

\* how many entries the secrets backup directory may hold
MaxFiles == 2

AllMessages == <<"quota exceeded", "timed out waiting for deployment",
                 "connection refused", "permission denied">>

ErrorMessages == {AllMessages[i] : i \in 1..NumErrors}

\* Go's nil error
nil == "nil"

\* what a call returns: nil or an error
Outcomes == {nil} \cup ErrorMessages

\* err.Error(): the message of a non-nil error
Message(e) == e

ClusterStatusProvisioned == "provisioned"

----------------------------------------------------------------------------
(* The record store *)

\* the record InitController leaves in the store for a new cluster
NewRecord == [status |-> "pending", in_progress |-> FALSE, error |-> ""]

\* MdbCl.UpdateCluster(name, field, value): writes one field of the record
UpdateCluster(rec, field, value) == [rec EXCEPT ![field] = value]

\* ctrl.HandleError(message): the one durable write recording the failure
HandleErrorRecord(rec, message) ==
    [rec EXCEPT !.status = "failed", !.in_progress = FALSE, !.error = message]

\* a stop channel before make(), not yet deferred, no port-forward using it
NoChannel == [made |-> FALSE, deferred |-> FALSE, forward |-> FALSE, closes |-> 0]

\* close(ch): counts the close and ends the port-forward listening on ch
Close(ch) == [ch EXCEPT !.closes = @ + 1, !.forward = FALSE]

----------------------------------------------------------------------------
(* AdjustGitopsRepo (package k3d): the state of one call *)

VARIABLES
    adjustPc,        \* the statement AdjustGitopsRepo is about to run
    adjustRet,       \* the value AdjustGitopsRepo returned ("running" before)
    args,            \* the arguments cloudProvider, gitProvider, removeAtlantis,
                     \* installKubefirstPro
    LocalhostARCH,   \* pkg.LocalhostARCH, the host architecture
    clusterContent,  \* the files under cluster-types/<clusterType>
    gitopsRepo,      \* the entries of gitopsRepoDir
    registry,        \* the files under registry/<clusterName>
    removeCalls      \* history: the paths given to os.Remove and os.RemoveAll

adjustVars == <<adjustPc, adjustRet, args, LocalhostARCH, clusterContent, gitopsRepo,
                registry, removeCalls>>

----------------------------------------------------------------------------
(* Several runs of CreateVultrCluster side by side *)

VARIABLES
    runs,    \* run -> the locals of that run of CreateVultrCluster
    store,   \* cluster name -> the ClusterRecord stored under that name
    solo,    \* run -> the same run executed alone on a store of its own
    hist     \* run -> history: the calls the run made, the records it wrote

runsVars == <<runs, store, solo, hist>>

\* the variables of the other specifications, which one run of CreateVultrCluster
\* leaves alone
otherVars == <<adjustVars, runsVars>>

vars == <<pipelineVars, otherVars>>

\* no runs side by side
RunsIdle ==
    /\ runs = <<>>
    /\ store = <<>>
    /\ solo = <<>>
    /\ hist = <<>>

\* no call of AdjustGitopsRepo is under way
AdjustIdle ==
    /\ adjustPc = "idle"
    /\ adjustRet = "running"
    /\ args = [cloudProvider |-> "", gitProvider |-> "", removeAtlantis |-> FALSE,
               installKubefirstPro |-> FALSE]
    /\ LocalhostARCH = ""
    /\ clusterContent = {}
    /\ gitopsRepo = {}
    /\ registry = {}
    /\ removeCalls = <<>>

----------------------------------------------------------------------------
Init ==
    /\ AdjustIdle
    /\ RunsIdle
    /\ pc = "InitController"
    /\ record = NewRecord
    /\ err = nil
    /\ retv = "running"
    /\ trace = <<>>
    /\ handled = <<>>
    /\ vaultStopChannel = NoChannel
    /\ cluster1KubefirstApiStopChannel = NoChannel
    /\ segmentClient = "none"
    /\ telemetry = <<>>
    /\ K1_LOCAL_DEBUG \in BOOLEAN
    /\ secretsFilesToRestore = 0

\* the call of stage s returned e
Called(s, e) == trace' = Append(trace, [stage |-> s, err |-> e])

\* return e: the deferred calls run next
Return(e) == pc' = "defers" /\ retv' = e

----------------------------------------------------------------------------
(* The two shapes of a stage call *)

\* HandledStage with the return missing from the error branch
HandledStageNoReturn(s, next) ==
    /\ pc = s
    /\ \E e \in Outcomes :
         /\ Called(s, e)
         /\ err' = e
         /\ IF e # nil
            THEN /\ handled' = Append(handled, Message(e))
                 /\ record' = HandleErrorRecord(record, Message(e))
            ELSE UNCHANGED <<handled, record>>
         /\ pc' = next
         /\ UNCHANGED retv
    /\ UNCHANGED <<vaultStopChannel, cluster1KubefirstApiStopChannel,
                   segmentClient, telemetry, K1_LOCAL_DEBUG, secretsFilesToRestore,
                   otherVars>>

\* err = ctrl.S(); if err != nil { ctrl.HandleError(err.Error()); return err }
HandledStage(s, next) ==
    /\ pc = s
    /\ \E e \in Outcomes :
         /\ Called(s, e)
         /\ err' = e
         /\ IF e # nil
            THEN /\ handled' = Append(handled, Message(e))
                 /\ record' = HandleErrorRecord(record, Message(e))
                 /\ Return(e)
            ELSE /\ pc' = next
                 /\ UNCHANGED <<handled, record, retv>>
    /\ UNCHANGED <<vaultStopChannel, cluster1KubefirstApiStopChannel,
                   segmentClient, telemetry, K1_LOCAL_DEBUG, secretsFilesToRestore,
                   otherVars>>

\* UnhandledStage with the error branch returning nil instead of err
UnhandledStageSwallow(s, next) ==
    /\ pc = s
    /\ \E e \in Outcomes :
         /\ Called(s, e)
         /\ err' = e
         /\ IF e # nil
            THEN Return(nil)
            ELSE pc' = next /\ UNCHANGED retv
    /\ UNCHANGED <<handled, record, vaultStopChannel, cluster1KubefirstApiStopChannel,
                   segmentClient, telemetry, K1_LOCAL_DEBUG, secretsFilesToRestore,
                   otherVars>>

\* err = ctrl.S(); if err != nil { return err }
UnhandledStage(s, next) ==
    /\ pc = s
    /\ \E e \in Outcomes :
         /\ Called(s, e)
         /\ err' = e
         /\ IF e # nil
            THEN Return(e)
            ELSE pc' = next /\ UNCHANGED retv
    /\ UNCHANGED <<handled, record, vaultStopChannel, cluster1KubefirstApiStopChannel,
                   segmentClient, telemetry, K1_LOCAL_DEBUG, secretsFilesToRestore,
                   otherVars>>

\* RecordWrite with a failed write logged and the run carrying on
RecordWriteSwallow(s, field, value, next) ==
    /\ pc = s
    /\ \E e \in Outcomes :
         /\ Called(s, e)
         /\ err' = e
         /\ record' = IF e # nil THEN record ELSE UpdateCluster(record, field, value)
         /\ pc' = next
         /\ UNCHANGED retv
    /\ UNCHANGED <<handled, vaultStopChannel, cluster1KubefirstApiStopChannel,
                   segmentClient, telemetry, K1_LOCAL_DEBUG, secretsFilesToRestore,
                   otherVars>>

\* err = ctrl.MdbCl.UpdateCluster(name, field, value); if err != nil { return err }
RecordWrite(s, field, value, next) ==
    /\ pc = s
    /\ \E e \in Outcomes :
         /\ Called(s, e)
         /\ err' = e
         /\ IF e # nil
            THEN Return(e) /\ UNCHANGED record
            ELSE /\ record' = UpdateCluster(record, field, value)
                 /\ pc' = next
                 /\ UNCHANGED retv
    /\ UNCHANGED <<handled, vaultStopChannel, cluster1KubefirstApiStopChannel,
                   segmentClient, telemetry, K1_LOCAL_DEBUG, secretsFilesToRestore,
                   otherVars>>

----------------------------------------------------------------------------
(* CreateVultrCluster, statement by statement *)

InitController == UnhandledStage("InitController", "MarkInProgress")

MarkInProgress == RecordWrite("MarkInProgress", "in_progress", TRUE, "DownloadTools")

DownloadTools == HandledStage("DownloadTools", "DomainLivenessTest")

DomainLivenessTest == HandledStage("DomainLivenessTest", "StateStoreCredentials")

StateStoreCredentials == HandledStage("StateStoreCredentials", "GitInit")

GitInit == HandledStage("GitInit", "InitializeBot")

InitializeBot == HandledStage("InitializeBot", "RepositoryPrep")

RepositoryPrep == UnhandledStage("RepositoryPrep", "RunGitTerraform")

RunGitTerraform == HandledStage("RunGitTerraform", "RepositoryPush")

RepositoryPush == HandledStage("RepositoryPush", "CreateCluster")

CreateCluster == HandledStage("CreateCluster", "WaitForClusterReady")

WaitForClusterReady == HandledStage("WaitForClusterReady", "ClusterSecretsBootstrap")

ClusterSecretsBootstrap == HandledStage("ClusterSecretsBootstrap", "SSLRestoreCheck")

\* SSLRestoreCheck with a failed os.ReadDir handled like a failed stage
SSLRestoreCheckFatal ==
    /\ pc = "SSLRestoreCheck"
    /\ \E e \in Outcomes, n \in 0..MaxFiles, r \in Outcomes :
         /\ err' = e
         /\ secretsFilesToRestore' = n
         /\ IF e # nil
            THEN /\ Called("ReadDir", e)
                 /\ handled' = Append(handled, Message(e))
                 /\ record' = HandleErrorRecord(record, Message(e))
                 /\ Return(e)
            ELSE /\ trace' = IF n # 0
                                THEN trace \o <<[stage |-> "ReadDir", err |-> e],
                                                [stage |-> "Restore", err |-> r]>>
                                ELSE Append(trace, [stage |-> "ReadDir", err |-> e])
                 /\ pc' = "InstallArgoCD"
                 /\ UNCHANGED <<record, retv, handled>>
    /\ UNCHANGED <<vaultStopChannel, cluster1KubefirstApiStopChannel,
                   segmentClient, telemetry, K1_LOCAL_DEBUG, otherVars>>

\* os.ReadDir of the secrets backup directory returns the entries it could read and
\* the error, if one occurred; the error is logged; ssl.Restore runs when there are
\* entries, and what it returns is dropped
SSLRestoreCheck ==
    /\ pc = "SSLRestoreCheck"
    /\ \E e \in Outcomes, n \in 0..MaxFiles, r \in Outcomes :
         /\ err' = e
         /\ secretsFilesToRestore' = n
         /\ trace' = IF n # 0
                        THEN trace \o <<[stage |-> "ReadDir", err |-> e],
                                        [stage |-> "Restore", err |-> r]>>
                        ELSE Append(trace, [stage |-> "ReadDir", err |-> e])
    /\ pc' = "InstallArgoCD"
    /\ UNCHANGED <<record, retv, handled, vaultStopChannel, cluster1KubefirstApiStopChannel,
                   segmentClient, telemetry, K1_LOCAL_DEBUG, otherVars>>

InstallArgoCD == HandledStage("InstallArgoCD", "InitializeArgoCD")

InitializeArgoCD == HandledStage("InitializeArgoCD", "DeployRegistryApplication")

DeployRegistryApplication == HandledStage("DeployRegistryApplication", "WaitForVault")

\* WaitForVault called a second time when its first call failed
WaitForVaultRetry ==
    /\ pc = "WaitForVault"
    /\ \E e \in Outcomes :
         /\ Called("WaitForVault", e)
         /\ err' = e
         /\ IF e = nil
            THEN pc' = "InitializeVault" /\ UNCHANGED <<handled, record, retv>>
            ELSE IF trace[Len(trace)].stage # "WaitForVault"
                 THEN pc' = "WaitForVault" /\ UNCHANGED <<handled, record, retv>>
                 ELSE /\ handled' = Append(handled, Message(e))
                      /\ record' = HandleErrorRecord(record, Message(e))
                      /\ Return(e)
    /\ UNCHANGED <<vaultStopChannel, cluster1KubefirstApiStopChannel,
                   segmentClient, telemetry, K1_LOCAL_DEBUG, secretsFilesToRestore,
                   otherVars>>

WaitForVault == HandledStage("WaitForVault", "InitializeVault")

\* InitializeVault's error branch without its return
InitializeVaultNoReturn == HandledStageNoReturn("InitializeVault", "OpenVaultPortForward")

InitializeVault == HandledStage("InitializeVault", "OpenVaultPortForward")

\* make(chan), defer close(vaultStopChannel), OpenPortForwardPodWrapper(vault-0)
OpenVaultPortForward ==
    /\ pc = "OpenVaultPortForward"
    /\ vaultStopChannel' =
         [made |-> TRUE, deferred |-> TRUE, forward |-> TRUE, closes |-> 0]
    /\ Called("OpenVaultPortForward", nil)
    /\ pc' = "RunVaultTerraform"
    /\ UNCHANGED <<record, err, retv, handled, cluster1KubefirstApiStopChannel,
                   segmentClient, telemetry, K1_LOCAL_DEBUG, secretsFilesToRestore,
                   otherVars>>

RunVaultTerraform == HandledStage("RunVaultTerraform", "RunUsersTerraform")

RunUsersTerraform == HandledStage("RunUsersTerraform", "ReturnDeploymentObject")

ReturnDeploymentObject == HandledStage("ReturnDeploymentObject", "WaitForDeploymentReady")

\* the console wait's error branch without its return
WaitForDeploymentReadyNoReturn ==
    HandledStageNoReturn("WaitForDeploymentReady", "OpenApiPortForward")

WaitForDeploymentReady == HandledStage("WaitForDeploymentReady", "OpenApiPortForward")

\* make(chan), defer close(cluster1KubefirstApiStopChannel); the port-forward to the
\* platform API is opened only when K1_LOCAL_DEBUG is non-empty
OpenApiPortForward ==
    /\ pc = "OpenApiPortForward"
    /\ cluster1KubefirstApiStopChannel' =
         [made |-> TRUE, deferred |-> TRUE, forward |-> K1_LOCAL_DEBUG, closes |-> 0]
    /\ trace' = IF K1_LOCAL_DEBUG
                    THEN Append(trace, [stage |-> "OpenApiPortForward", err |-> nil])
                    ELSE trace
    /\ pc' = "ExportClusterRecord"
    /\ UNCHANGED <<record, err, retv, handled, vaultStopChannel,
                   segmentClient, telemetry, K1_LOCAL_DEBUG, secretsFilesToRestore,
                   otherVars>>

\* a failed export logged and the run carrying on
ExportClusterRecordLogged ==
    /\ pc = "ExportClusterRecord"
    /\ \E e \in Outcomes :
         /\ Called("ExportClusterRecord", e)
         /\ err' = e
    /\ pc' = "MarkProvisioned"
    /\ UNCHANGED <<record, retv, handled, vaultStopChannel, cluster1KubefirstApiStopChannel,
                   segmentClient, telemetry, K1_LOCAL_DEBUG, secretsFilesToRestore,
                   otherVars>>

ExportClusterRecord == UnhandledStage("ExportClusterRecord", "MarkProvisioned")

MarkProvisioned ==
    RecordWrite("MarkProvisioned", "status", ClusterStatusProvisioned, "MarkNotInProgress")

\* the write of in_progress=false left out
MarkNotInProgressOmitted ==
    /\ pc = "MarkNotInProgress"
    /\ pc' = "GetCurrentClusterRecord"
    /\ UNCHANGED <<record, err, retv, trace, handled, vaultStopChannel,
                   cluster1KubefirstApiStopChannel, segmentClient, telemetry,
                   K1_LOCAL_DEBUG, secretsFilesToRestore, otherVars>>

MarkNotInProgress ==
    RecordWrite("MarkNotInProgress", "in_progress", FALSE, "GetCurrentClusterRecord")

\* the error of GetCurrentClusterRecord dropped, as GetCluster's is
GetCurrentClusterRecordIgnored ==
    /\ pc = "GetCurrentClusterRecord"
    /\ \E e \in Outcomes :
         /\ Called("GetCurrentClusterRecord", e)
         /\ err' = e
    /\ pc' = "SetupTelemetry"
    /\ UNCHANGED <<record, retv, handled, vaultStopChannel, cluster1KubefirstApiStopChannel,
                   segmentClient, telemetry, K1_LOCAL_DEBUG, secretsFilesToRestore,
                   otherVars>>

\* the error branch of GetCurrentClusterRecord calling HandleError like the stages above
GetCurrentClusterRecordHandled == HandledStage("GetCurrentClusterRecord", "SetupTelemetry")

GetCurrentClusterRecord == UnhandledStage("GetCurrentClusterRecord", "SetupTelemetry")

\* segmentClient, err := SetupTelemetry(rec); on success defer segmentClient.Client.Close()
SetupTelemetry ==
    /\ pc = "SetupTelemetry"
    /\ \E e \in Outcomes :
         /\ Called("SetupTelemetry", e)
         /\ err' = e
         /\ IF e # nil
            THEN Return(e) /\ UNCHANGED segmentClient
            ELSE /\ segmentClient' = "open"
                 /\ pc' = "Transmit"
                 /\ UNCHANGED retv
    /\ UNCHANGED <<record, handled, vaultStopChannel, cluster1KubefirstApiStopChannel,
                   telemetry, K1_LOCAL_DEBUG, secretsFilesToRestore, otherVars>>

\* telemetryShim.Transmit(useTelemetry, client, metric, ""): emits the metric as one
\* telemetry event
TransmitMetric(useTelemetry, sent, metric) == Append(sent, metric)

Transmit ==
    /\ pc = "Transmit"
    /\ \E UseTelemetry \in BOOLEAN :
         telemetry' = TransmitMetric(UseTelemetry, telemetry, "MetricClusterInstallCompleted")
    /\ Called("Transmit", nil)
    /\ pc' = "AddDefaultServices"
    /\ UNCHANGED <<record, err, retv, handled, vaultStopChannel,
                   cluster1KubefirstApiStopChannel, segmentClient, K1_LOCAL_DEBUG,
                   secretsFilesToRestore, otherVars>>

\* cl, _ := db.Client.GetCluster(name): the error is dropped;
\* services.AddDefaultServices(&cl): an error is logged; then return nil
AddDefaultServices ==
    /\ pc = "AddDefaultServices"
    /\ \E g \in Outcomes, e \in Outcomes :
         /\ trace' = trace \o <<[stage |-> "GetCluster", err |-> g],
                                 [stage |-> "AddDefaultServices", err |-> e]>>
         /\ err' = e
    /\ Return(nil)
    /\ UNCHANGED <<record, handled, vaultStopChannel, cluster1KubefirstApiStopChannel,
                   segmentClient, telemetry, K1_LOCAL_DEBUG, secretsFilesToRestore,
                   otherVars>>

\* the deferred calls, last registered first: segmentClient.Client.Close(),
\* close(cluster1KubefirstApiStopChannel), close(vaultStopChannel)
RunDeferred ==
    /\ pc = "defers"
    /\ segmentClient' = IF segmentClient = "open" THEN "closed" ELSE segmentClient
    /\ cluster1KubefirstApiStopChannel' =
         IF cluster1KubefirstApiStopChannel.deferred
         THEN Close(cluster1KubefirstApiStopChannel)
         ELSE cluster1KubefirstApiStopChannel
    /\ vaultStopChannel' =
         IF vaultStopChannel.deferred THEN Close(vaultStopChannel) ELSE vaultStopChannel
    /\ pc' = "done"
    /\ UNCHANGED <<record, err, retv, trace, handled, telemetry, K1_LOCAL_DEBUG,
                   secretsFilesToRestore, otherVars>>

Next ==
    \/ InitController
    \/ MarkInProgress
    \/ DownloadTools
    \/ DomainLivenessTest
    \/ StateStoreCredentials
    \/ GitInit
    \/ InitializeBot
    \/ RepositoryPrep
    \/ RunGitTerraform
    \/ RepositoryPush
    \/ CreateCluster
    \/ WaitForClusterReady
    \/ ClusterSecretsBootstrap
    \/ SSLRestoreCheck
    \/ InstallArgoCD
    \/ InitializeArgoCD
    \/ DeployRegistryApplication
    \/ WaitForVault
    \/ InitializeVault
    \/ OpenVaultPortForward
    \/ RunVaultTerraform
    \/ RunUsersTerraform
    \/ ReturnDeploymentObject
    \/ WaitForDeploymentReady
    \/ OpenApiPortForward
    \/ ExportClusterRecord
    \/ MarkProvisioned
    \/ MarkNotInProgress
    \/ GetCurrentClusterRecord
    \/ SetupTelemetry
    \/ Transmit
    \/ AddDefaultServices
    \/ RunDeferred

\* one run of CreateVultrCluster
Spec == Init /\ [][Next]_vars

----------------------------------------------------------------------------
(* Vocabulary of the properties *)

\* every call CreateVultrCluster makes, in the order of the function body
FixedSequence ==
    <<"InitController", "MarkInProgress", "DownloadTools", "DomainLivenessTest",
      "StateStoreCredentials", "GitInit", "InitializeBot", "RepositoryPrep",
      "RunGitTerraform", "RepositoryPush", "CreateCluster", "WaitForClusterReady",
      "ClusterSecretsBootstrap", "ReadDir", "Restore", "InstallArgoCD",
      "InitializeArgoCD", "DeployRegistryApplication", "WaitForVault", "InitializeVault",
      "OpenVaultPortForward", "RunVaultTerraform", "RunUsersTerraform",
      "ReturnDeploymentObject", "WaitForDeploymentReady", "OpenApiPortForward",
      "ExportClusterRecord", "MarkProvisioned", "MarkNotInProgress",
      "GetCurrentClusterRecord", "SetupTelemetry", "Transmit", "GetCluster",
      "AddDefaultServices">>

\* the calls that a run may leave out: the TLS restore and the debug port-forward
OptionalCalls == {"Restore", "OpenApiPortForward"}

Pos(s) == CHOOSE i \in 1..Len(FixedSequence) : FixedSequence[i] = s

Stages(from, to) == {FixedSequence[i] : i \in Pos(from)..Pos(to)}

\* the stages of the pipeline up to the console deployment wait
PipelineStages ==
    Stages("InitController", "WaitForDeploymentReady")
        \ {"ReadDir", "Restore", "OpenVaultPortForward"}

\* the stages that run after the record was marked in_progress
StagesAfterMark == PipelineStages \ {"InitController", "MarkInProgress"}

\* the calls whose error makes CreateVultrCluster return an error
FatalCalls == Stages("InitController", "SetupTelemetry") \ {"ReadDir", "Restore"}

Invoked(s) == \E i \in 1..Len(trace) : trace[i].stage = s

Succeeded(s) == \E i \in 1..Len(trace) : trace[i].stage = s /\ trace[i].err = nil

Failed(s) == \E i \in 1..Len(trace) : trace[i].stage = s /\ trace[i].err # nil

Returned == pc = "done"

----------------------------------------------------------------------------
(* C1: fail-fast.  When a stage of the pipeline (InitController ... the console *)
(* deployment wait) returns an error, it is the last call of the run, the run  *)
(* is returning, and the value returned is that stage's error.                *)
C1_FailFast ==
    \A i \in 1..Len(trace) :
        (trace[i].stage \in PipelineStages /\ trace[i].err # nil) =>
            /\ i = Len(trace)
            /\ pc \in {"defers", "done"}
            /\ retv = trace[i].err

C1_Witness ==
    /\ Returned
    /\ Failed("CreateCluster")
    /\ retv = "quota exceeded"
    /\ ~Invoked("WaitForClusterReady")

(* C2: every failure of a stage that runs after the record was marked          *)
(* in_progress (RepositoryPrep included) has HandleError invoked exactly once, *)
(* with that stage's message; HandleError is not invoked when no stage failed, *)
(* and never twice.                                                            *)
C2_EveryFailureHandled ==
    /\ Len(handled) <= 1
    /\ (\A s \in PipelineStages : ~Failed(s)) => handled = <<>>
    /\ \A i \in 1..Len(trace) :
         (trace[i].stage \in StagesAfterMark /\ trace[i].err # nil) =>
             handled = <<Message(trace[i].err)>>

(* C3: when CreateVultrCluster has returned an error after the record was      *)
(* marked in_progress, the record has status failed, in_progress false and the *)
(* message of the failing step as its error.                                   *)
C3_ErrorReturnMeansFailedRecord ==
    (Returned /\ retv # nil /\ Succeeded("MarkInProgress")) =>
        /\ record.status = "failed"
        /\ record.in_progress = FALSE
        /\ record.error = Message(retv)

\* the order of the statuses
Rank(status) ==
    CASE status = "pending" -> 0
      [] status = "in_progress" -> 1
      [] status = "provisioned" -> 2
      [] status = "failed" -> 2

(* C4: monotonic status.  No step moves the record's status backward in        *)
(* pending < in_progress < {provisioned, failed}, and a record that is         *)
(* provisioned or failed keeps that status.                                    *)
C4_MonotonicStatus ==
    [][ /\ Rank(record.status) <= Rank(record'.status)
        /\ record.status \in {"provisioned", "failed"} => record'.status = record.status
      ]_vars

C4_Witness ==
    /\ Returned
    /\ record.status = "provisioned"
    /\ Failed("GetCurrentClusterRecord")

(* C5: in-progress consistency.  In every state the flag in_progress is true   *)
(* exactly when the status is in_progress.                                     *)
C5_InProgressConsistency ==
    record.in_progress <=> record.status = "in_progress"

(* C6: tunnel closure.  No stop channel is closed twice; a stop channel that   *)
(* was made is closed exactly once when the run has returned; and the vault    *)
(* port-forward is open only while the vault stages run, not during the later  *)
(* stages.                                                                     *)
C6_TunnelClosure ==
    /\ vaultStopChannel.closes <= 1
    /\ cluster1KubefirstApiStopChannel.closes <= 1
    /\ Returned =>
         /\ vaultStopChannel.made => vaultStopChannel.closes = 1
         /\ cluster1KubefirstApiStopChannel.made =>
                cluster1KubefirstApiStopChannel.closes = 1
    /\ vaultStopChannel.forward =>
         pc \in {"RunVaultTerraform", "RunUsersTerraform", "defers"}

\* every call of the run, the directory read aside, returned nil
AllSucceeded ==
    /\ Invoked("AddDefaultServices")
    /\ \A i \in 1..Len(trace) : trace[i].stage # "ReadDir" => trace[i].err = nil

(* C7: success outcome.  A run in which every stage, record write and          *)
(* telemetry call succeeded returns nil, leaves the record provisioned with    *)
(* in_progress false and no error, and has transmitted exactly one             *)
(* MetricClusterInstallCompleted event.                                        *)
C7_SuccessOutcome ==
    (Returned /\ AllSucceeded) =>
        /\ retv = nil
        /\ record = [status |-> "provisioned", in_progress |-> FALSE, error |-> ""]
        /\ telemetry = <<"MetricClusterInstallCompleted">>

C7_Witness ==
    /\ Returned
    /\ AllSucceeded
    /\ retv = nil

(* C8: completion telemetry only on success.  The event is transmitted at most *)
(* once; it is not transmitted in a run in which a stage failed; and once it   *)
(* was transmitted the record is provisioned with in_progress false.           *)
C8_TelemetryOnlyOnSuccess ==
    /\ Len(telemetry) <= 1
    /\ (\E s \in FatalCalls : Failed(s)) => telemetry = <<>>
    /\ telemetry # <<>> =>
         (record.status = "provisioned" /\ record.in_progress = FALSE)

C8_Witness ==
    /\ Returned
    /\ \E i \in 1..Len(trace) :
         trace[i].stage = "RunGitTerraform" /\ trace[i].err = "quota exceeded"
    /\ telemetry = <<>>

\* a call of the terminal bookkeeping failed
BookkeepingFailed ==
    \/ Failed("ExportClusterRecord")
    \/ Failed("GetCurrentClusterRecord")
    \/ Failed("SetupTelemetry")
    \/ Failed("AddDefaultServices")

(* C9: bookkeeping failures do not overturn success.  When the console         *)
(* deployment wait succeeded and a call of the terminal bookkeeping failed,    *)
(* the record is never failed and the run ends with the record provisioned and *)
(* in_progress false.                                                          *)
C9_BookkeepingKeepsSuccess ==
    (Succeeded("WaitForDeploymentReady") /\ BookkeepingFailed) =>
        /\ record.status # "failed"
        /\ Returned => (record.status = "provisioned" /\ record.in_progress = FALSE)

(* C10: fixed order without retry.  The calls of a run are in the order of the *)
(* one fixed sequence, none is made twice, and every call of the sequence      *)
(* before the latest one was made, the optional TLS restore and debug          *)
(* port-forward aside.                                                         *)
C10_FixedOrder ==
    /\ \A i \in 1..Len(trace) : trace[i].stage \in Stages("InitController", "AddDefaultServices")
    /\ \A i, j \in 1..Len(trace) :
         i < j => Pos(trace[i].stage) < Pos(trace[j].stage)
    /\ \A i \in 1..Len(trace) :
         \A k \in 1..Len(FixedSequence) :
             k < Pos(trace[i].stage) =>
                 \/ FixedSequence[k] \in OptionalCalls
                 \/ \E j \in 1..Len(trace) : j < i /\ trace[j].stage = FixedSequence[k]

C10_Witness ==
    /\ Returned
    /\ Len(trace) = Len(FixedSequence)

(* C11: terminal state.  Once a run that marked the record in_progress has     *)
(* returned, the record is terminal: status provisioned or failed, and         *)
(* in_progress false.                                                          *)
C11_TerminalState ==
    (Returned /\ Succeeded("MarkInProgress")) =>
        /\ record.status \in {"provisioned", "failed"}
        /\ record.in_progress = FALSE

\* the calls the TLS restore check has added to the history in this step
RestoreCheckCalls == SubSeq(trace', Len(trace) + 1, Len(trace'))

RecordWrites == {"MarkInProgress", "MarkProvisioned", "MarkNotInProgress"}

(* C13: record-store write failures are propagated.  A failed UpdateCluster    *)
(* call of CreateVultrCluster is the last call of the run, the run is          *)
(* returning, and the value returned is the error of that write.               *)
C13_WriteFailurePropagated ==
    \A i \in 1..Len(trace) :
        (trace[i].stage \in RecordWrites /\ trace[i].err # nil) =>
            /\ i = Len(trace)
            /\ pc \in {"defers", "done"}
            /\ retv = trace[i].err
            /\ retv # nil
            /\ telemetry = <<>>

C13_Witness ==
    /\ Returned
    /\ Failed("MarkNotInProgress")
    /\ retv = "quota exceeded"
    /\ ~Invoked("GetCurrentClusterRecord")

(* C16: vault configuration preconditions.  RunVaultTerraform and              *)
(* RunUsersTerraform are called, and the vault port-forward is opened, only    *)
(* after WaitForVault and InitializeVault returned nil; and when either        *)
(* terraform stage is about to run the vault port-forward is open and its stop *)
(* channel has not been closed.                                                *)
C16_VaultPreconditions ==
    /\ (Invoked("RunVaultTerraform") \/ Invoked("RunUsersTerraform")
            \/ Invoked("OpenVaultPortForward") \/ vaultStopChannel.made) =>
         (Succeeded("WaitForVault") /\ Succeeded("InitializeVault"))
    /\ (Failed("WaitForVault") \/ Failed("InitializeVault")) => ~vaultStopChannel.forward
    /\ pc \in {"RunVaultTerraform", "RunUsersTerraform"} =>
         /\ Invoked("OpenVaultPortForward")
         /\ vaultStopChannel.forward
         /\ vaultStopChannel.closes = 0

C16_Witness ==
    /\ pc = "RunUsersTerraform"
    /\ Succeeded("RunVaultTerraform")
    /\ vaultStopChannel.forward

\* the provisioning stages from DownloadTools to the console wait, and the export
ProvisioningStages == StagesAfterMark \cup {"ExportClusterRecord"}

(* C17: provisioned implies everything succeeded.  In every state in which the *)
(* record's status is provisioned, every provisioning stage from DownloadTools *)
(* through the console wait, and ExportClusterRecord, returned nil earlier in  *)
(* the run, and HandleError was not invoked.                                   *)
C17_ProvisionedImpliesSuccess ==
    record.status = "provisioned" =>
        /\ \A s \in ProvisioningStages : Succeeded(s)
        /\ handled = <<>>

C17_Witness ==
    /\ record.status = "provisioned"
    /\ pc = "MarkNotInProgress"

\* the calls whose error is logged or dropped
NonFatalCalls == {"ReadDir", "Restore", "GetCluster", "AddDefaultServices"}

\* what a nil return implies, the calls in ok being those that may have failed
NilReturnImplies(ok) ==
    retv = nil =>
        /\ Succeeded("MarkProvisioned")
        /\ Succeeded("MarkNotInProgress")
        /\ Len(telemetry) = 1
        /\ handled = <<>>
        /\ \A i \in 1..Len(trace) : trace[i].err # nil => trace[i].stage \in ok

(* C18 as stated: nil is returned only when both record writes succeeded, one  *)
(* completion event was transmitted and HandleError was not invoked, and       *)
(* AddDefaultServices is the only call that may have failed.                   *)
C18_NilOnlyAfterServicesFailure == NilReturnImplies({"AddDefaultServices"})

(* C18 amended: the same, the calls that may have failed being os.ReadDir,     *)
(* ssl.Restore, db.Client.GetCluster and AddDefaultServices.                   *)
C18_NilReturn == NilReturnImplies(NonFatalCalls)

C18_Witness ==
    /\ Returned
    /\ retv = nil
    /\ Failed("ReadDir")
    /\ Failed("AddDefaultServices")

----------------------------------------------------------------------------
(* AdjustGitopsRepo.  A path is the sequence of its components; the directory *)
(* registry/<clusterName> is the path <<"registry">>, cluster-types/<type> is *)
(* <<"cluster-types", "type">>, and the platform directory                    *)
(* <cloud>-<git> is the path <<cloud, git>>.                                  *)

\* no run of CreateVultrCluster is under way
PipelineIdle ==
    /\ pc = "idle"
    /\ record = NewRecord
    /\ err = nil
    /\ retv = "running"
    /\ trace = <<>>
    /\ handled = <<>>
    /\ vaultStopChannel = NoChannel
    /\ cluster1KubefirstApiStopChannel = NoChannel
    /\ segmentClient = "none"
    /\ telemetry = <<>>
    /\ K1_LOCAL_DEBUG = FALSE
    /\ secretsFilesToRestore = 0

\* the variables AdjustGitopsRepo leaves alone
nonAdjustVars == <<pipelineVars, runsVars>>

\* the package's CloudProvider
CloudProvider == "k3d"

CloudProviders == {"k3d", "vultr"}

GitProviders == {"github", "gitlab"}

Architectures == {"amd64", "arm64"}

\* fmt.Sprintf("%s-%s", cloud, git)
Platform(cloud, git) == <<cloud, git>>

\* pkg.SupportedPlatforms
SupportedPlatforms == {Platform(c, g) : c \in CloudProviders, g \in GitProviders}

\* the files a cluster type may hold, relative to its directory
RegistryFiles ==
    {<<"components", "gitlab-runner", "application.yaml">>,
     <<"components", "gitlab-runner", "application-arm.yaml">>,
     <<"components", "kubefirst", "application.yaml">>,
     <<"kubefirst.yaml">>,
     <<"atlantis.yaml">>}

\* fmt.Sprintf("%s/registry/%s", gitopsRepoDir, clusterName)
registryLocation == <<"registry">>

IsPrefix(p, q) == Len(p) <= Len(q) /\ SubSeq(q, 1, Len(p)) = p

\* os.RemoveAll(p): p and everything under it
RemoveAll(fs, p) == {q \in fs : ~IsPrefix(p, q)}

\* os.Remove(p): the file p, or the directory p when it is empty
Remove(fs, p) ==
    IF \E q \in fs : q # p /\ IsPrefix(p, q) THEN fs ELSE fs \ {p}

\* cp.Copy(src, dst, opt): what is under src, copied under dst
Copy(fs, src, dst) ==
    fs \cup {dst \o SubSeq(q, Len(src) + 1, Len(q)) :
                 q \in {x \in fs : IsPrefix(src, x) /\ x # src}}

\* the template tree: a directory for every platform, the cluster type, services
Template(content) ==
    {p \o <<"terraform">> : p \in SupportedPlatforms}
        \cup {<<"cluster-types", "type">> \o f : f \in content}
        \cup {<<"services", "catalog">>}

AdjustInit ==
    /\ PipelineIdle
    /\ RunsIdle
    /\ adjustPc = "CleanPlatforms"
    /\ adjustRet = "running"
    /\ args \in [cloudProvider : CloudProviders, gitProvider : GitProviders,
                 removeAtlantis : BOOLEAN, installKubefirstPro : BOOLEAN]
    /\ LocalhostARCH \in Architectures
    /\ clusterContent \in SUBSET RegistryFiles
    /\ gitopsRepo = Template(clusterContent)
    /\ registry = {}
    /\ removeCalls = <<>>

\* the files now under registry/<clusterName>, relative to it
RegistryOf(fs) ==
    {SubSeq(q, Len(registryLocation) + 1, Len(q)) :
         q \in {x \in fs : IsPrefix(registryLocation, x) /\ x # registryLocation}}

\* one statement of AdjustGitopsRepo: the tree becomes fs, the paths in calls were
\* given to os.Remove or os.RemoveAll, and the function goes on at next
AdjustStep(fs, calls, next) ==
    /\ gitopsRepo' = fs
    /\ registry' = RegistryOf(fs)
    /\ removeCalls' = removeCalls \o calls
    /\ adjustPc' = next
    /\ UNCHANGED <<adjustRet, args, LocalhostARCH, clusterContent, nonAdjustVars>>

\* return e from AdjustGitopsRepo
AdjustReturn(e) ==
    /\ adjustPc' = "done"
    /\ adjustRet' = e
    /\ UNCHANGED <<args, LocalhostARCH, clusterContent, gitopsRepo, registry,
                   removeCalls, nonAdjustVars>>

\* clean up all other platforms
CleanPlatforms ==
    /\ adjustPc = "CleanPlatforms"
    /\ LET others == SupportedPlatforms \ {Platform(CloudProvider, args.gitProvider)}
       IN  AdjustStep({q \in gitopsRepo : \A p \in others : ~IsPrefix(p, q)},
                      <<>>, "CopyDriver")

\* copy <CloudProvider>-<gitProvider>/* to gitopsRepoDir, then remove the directory
CopyDriver ==
    /\ adjustPc = "CopyDriver"
    /\ \E e \in Outcomes :
         IF e # nil
         THEN AdjustReturn(e)
         ELSE LET driverContent == Platform(CloudProvider, args.gitProvider)
              IN  AdjustStep(RemoveAll(Copy(gitopsRepo, driverContent, <<>>),
                                       driverContent),
                             <<>>, "CopyCluster")

\* copy cluster-types/<clusterType>/* to registry/<clusterName>, then remove
\* cluster-types and services
CopyCluster ==
    /\ adjustPc = "CopyCluster"
    /\ \E e \in Outcomes :
         IF e # nil
         THEN AdjustReturn(e)
         ELSE AdjustStep(
                  RemoveAll(RemoveAll(Copy(gitopsRepo, <<"cluster-types", "type">>,
                                           registryLocation),
                                      <<"cluster-types">>),
                            <<"services">>),
                  <<>>, "ArchVariant")

\* the condition of the architecture branch with || for &&
DeletesAmdVariantEither(arch, cloudProvider) ==
    arch = "arm64" \/ cloudProvider = CloudProvider

\* pkg.LocalhostARCH == "arm64" && cloudProvider == CloudProvider
DeletesAmdVariant(arch, cloudProvider) ==
    arch = "arm64" /\ cloudProvider = CloudProvider

amdGitlabRunnerFileLocation ==
    registryLocation \o <<"components", "gitlab-runner", "application.yaml">>

armGitlabRunnerFileLocation ==
    registryLocation \o <<"components", "gitlab-runner", "application-arm.yaml">>

\* delete the amd or the arm application file of the gitlab runner
ArchVariant ==
    /\ adjustPc = "ArchVariant"
    /\ IF args.gitProvider = "gitlab"
       THEN LET file == IF DeletesAmdVariant(LocalhostARCH, args.cloudProvider)
                        THEN amdGitlabRunnerFileLocation
                        ELSE armGitlabRunnerFileLocation
            IN  AdjustStep(Remove(gitopsRepo, file), <<file>>, "KubefirstPro")
       ELSE AdjustStep(gitopsRepo, <<>>, "KubefirstPro")

\* without installKubefirstPro: remove components/kubefirst and kubefirst.yaml
KubefirstPro ==
    /\ adjustPc = "KubefirstPro"
    /\ IF ~args.installKubefirstPro
       THEN LET kubefirstComponentsLocation ==
                    registryLocation \o <<"components", "kubefirst">>
                kubefirstRegistryLocation == registryLocation \o <<"kubefirst.yaml">>
            IN  AdjustStep(Remove(RemoveAll(gitopsRepo, kubefirstComponentsLocation),
                                  kubefirstRegistryLocation),
                           <<kubefirstComponentsLocation, kubefirstRegistryLocation>>,
                           "Atlantis")
       ELSE AdjustStep(gitopsRepo, <<>>, "Atlantis")

\* with removeAtlantis: remove atlantis.yaml; then return nil
Atlantis ==
    /\ adjustPc = "Atlantis"
    /\ adjustRet' = nil
    /\ adjustPc' = "done"
    /\ LET atlantisRegistryFileLocation == registryLocation \o <<"atlantis.yaml">>
       IN  IF args.removeAtlantis
           THEN /\ gitopsRepo' = Remove(gitopsRepo, atlantisRegistryFileLocation)
                /\ removeCalls' = Append(removeCalls, atlantisRegistryFileLocation)
           ELSE UNCHANGED <<gitopsRepo, removeCalls>>
    /\ registry' = RegistryOf(gitopsRepo')
    /\ UNCHANGED <<args, LocalhostARCH, clusterContent, nonAdjustVars>>

AdjustNext ==
    \/ CleanPlatforms
    \/ CopyDriver
    \/ CopyCluster
    \/ ArchVariant
    \/ KubefirstPro
    \/ Atlantis

\* one call of AdjustGitopsRepo
SpecAdjust == AdjustInit /\ [][AdjustNext]_vars

Removed(p) == \E i \in 1..Len(removeCalls) : removeCalls[i] = p

amd == <<"components", "gitlab-runner", "application.yaml">>

arm == <<"components", "gitlab-runner", "application-arm.yaml">>

(* C19: architecture variant selection.  After a successful call with          *)
(* gitProvider gitlab exactly one of the two gitlab-runner application files   *)
(* was removed: application.yaml when the host is arm64 and the cloudProvider  *)
(* argument equals CloudProvider, application-arm.yaml otherwise; the other    *)
(* file is as the cluster type had it.  With any other gitProvider neither was *)
(* removed.                                                                    *)
C19_ArchVariantSelection ==
    (adjustPc = "done" /\ adjustRet = nil) =>
        LET amdCase == LocalhostARCH = "arm64" /\ args.cloudProvider = CloudProvider
            gone == IF amdCase THEN amd ELSE arm
            kept == IF amdCase THEN arm ELSE amd
        IN  IF args.gitProvider = "gitlab"
            THEN /\ Removed(registryLocation \o gone)
                 /\ ~Removed(registryLocation \o kept)
                 /\ gone \notin registry
                 /\ kept \in registry <=> kept \in clusterContent
            ELSE /\ ~Removed(registryLocation \o amd)
                 /\ ~Removed(registryLocation \o arm)
                 /\ \A f \in {amd, arm} : f \in registry <=> f \in clusterContent

C19_Witness ==
    /\ adjustPc = "done"
    /\ adjustRet = nil
    /\ args.gitProvider = "gitlab"
    /\ LocalhostARCH = "arm64"
    /\ args.cloudProvider = CloudProvider
    /\ {amd, arm} \subseteq clusterContent
    /\ amd \notin registry
    /\ arm \in registry

----------------------------------------------------------------------------
(* CreateVultrCluster as a function: one statement applied to the locals of *)
(* a run and to the record stored under the run's cluster name             *)

\* the statements of the function body in program order; the deferred calls come last
Statements ==
    <<"InitController", "MarkInProgress", "DownloadTools", "DomainLivenessTest",
      "StateStoreCredentials", "GitInit", "InitializeBot", "RepositoryPrep",
      "RunGitTerraform", "RepositoryPush", "CreateCluster", "WaitForClusterReady",
      "ClusterSecretsBootstrap", "SSLRestoreCheck", "InstallArgoCD",
      "InitializeArgoCD", "DeployRegistryApplication", "WaitForVault", "InitializeVault",
      "OpenVaultPortForward", "RunVaultTerraform", "RunUsersTerraform",
      "ReturnDeploymentObject", "WaitForDeploymentReady", "OpenApiPortForward",
      "ExportClusterRecord", "MarkProvisioned", "MarkNotInProgress",
      "GetCurrentClusterRecord", "SetupTelemetry", "Transmit", "AddDefaultServices",
      "defers">>

\* the statement that follows p when p does not return
After(p) == Statements[(CHOOSE i \in 1..Len(Statements) : Statements[i] = p) + 1]

\* the stages whose error branch calls ctrl.HandleError and returns the error
HandledStages ==
    {"DownloadTools", "DomainLivenessTest", "StateStoreCredentials", "GitInit",
     "InitializeBot", "RunGitTerraform", "RepositoryPush", "CreateCluster",
     "WaitForClusterReady", "ClusterSecretsBootstrap", "InstallArgoCD",
     "InitializeArgoCD", "DeployRegistryApplication", "WaitForVault", "InitializeVault",
     "RunVaultTerraform", "RunUsersTerraform", "ReturnDeploymentObject",
     "WaitForDeploymentReady"}

\* the calls whose error branch returns the error without ctrl.HandleError
UnhandledStages ==
    {"InitController", "RepositoryPrep", "ExportClusterRecord", "GetCurrentClusterRecord"}

\* the locals of a run that has not started: ctrl.ClusterName and the environment are
\* given, the rest is as in Init
InitRun(name, debug) ==
    [ClusterName |-> name,
     pc |-> "InitController",
     err |-> nil,
     retv |-> "running",
     handled |-> <<>>,
     vaultStopChannel |-> NoChannel,
     cluster1KubefirstApiStopChannel |-> NoChannel,
     segmentClient |-> "none",
     telemetry |-> <<>>,
     K1_LOCAL_DEBUG |-> debug,
     secretsFilesToRestore |-> 0]

\* the outcomes one statement draws: e the error of its call, n the entries os.ReadDir
\* returned, r what ssl.Restore returned, g the error of db.Client.GetCluster,
\* u the record's UseTelemetry
NoInput == [e |-> nil, n |-> 0, r |-> nil, g |-> nil, u |-> FALSE]

InputsOf(p) ==
    CASE p = "SSLRestoreCheck" ->
           {[NoInput EXCEPT !.e = e, !.n = n, !.r = r] :
               e \in Outcomes, n \in 0..MaxFiles, r \in Outcomes}
      [] p = "AddDefaultServices" ->
           {[NoInput EXCEPT !.e = e, !.g = g] : e \in Outcomes, g \in Outcomes}
      [] p = "Transmit" -> {[NoInput EXCEPT !.u = u] : u \in BOOLEAN}
      [] p \in {"OpenVaultPortForward", "OpenApiPortForward", "defers", "done"} ->
           {NoInput}
      [] OTHER -> {[NoInput EXCEPT !.e = e] : e \in Outcomes}

\* one call with the error it returned
Call(s, e) == [stage |-> s, err |-> e]

\* what a statement leaves behind: the locals, the record, the calls it made and the
\* records it wrote
Step(run, rec, calls, writes) ==
    [run |-> run, rec |-> rec, calls |-> calls, writes |-> writes]

\* err = ctrl.S(); if err != nil { ctrl.HandleError(err.Error()); return err }
HandledStageStep(s, rec, e) ==
    IF e # nil
    THEN Step([s EXCEPT !.err = e, !.handled = Append(@, Message(e)),
                        !.pc = "defers", !.retv = e],
              HandleErrorRecord(rec, Message(e)),
              <<Call(s.pc, e)>>,
              <<HandleErrorRecord(rec, Message(e))>>)
    ELSE Step([s EXCEPT !.err = e, !.pc = After(s.pc)], rec, <<Call(s.pc, e)>>, <<>>)

\* err = ctrl.S(); if err != nil { return err }
UnhandledStageStep(s, rec, e) ==
    IF e # nil
    THEN Step([s EXCEPT !.err = e, !.pc = "defers", !.retv = e], rec,
              <<Call(s.pc, e)>>, <<>>)
    ELSE Step([s EXCEPT !.err = e, !.pc = After(s.pc)], rec, <<Call(s.pc, e)>>, <<>>)

\* err = ctrl.MdbCl.UpdateCluster(ctrl.ClusterName, field, value);
\* if err != nil { return err }
RecordWriteStep(s, rec, e, field, value) ==
    IF e # nil
    THEN Step([s EXCEPT !.err = e, !.pc = "defers", !.retv = e], rec,
              <<Call(s.pc, e)>>, <<>>)
    ELSE Step([s EXCEPT !.err = e, !.pc = After(s.pc)],
              UpdateCluster(rec, field, value),
              <<Call(s.pc, e)>>,
              <<UpdateCluster(rec, field, value)>>)

\* os.ReadDir, its error logged; ssl.Restore when there are entries, its result dropped
SSLRestoreCheckStep(s, rec, in) ==
    Step([s EXCEPT !.err = in.e, !.secretsFilesToRestore = in.n, !.pc = After(s.pc)],
         rec,
         IF in.n # 0
         THEN <<Call("ReadDir", in.e), Call("Restore", in.r)>>
         ELSE <<Call("ReadDir", in.e)>>,
         <<>>)

\* make(chan), defer close(vaultStopChannel), OpenPortForwardPodWrapper(vault-0)
OpenVaultPortForwardStep(s, rec) ==
    Step([s EXCEPT !.vaultStopChannel =
                       [made |-> TRUE, deferred |-> TRUE, forward |-> TRUE, closes |-> 0],
                   !.pc = After(s.pc)],
         rec, <<Call("OpenVaultPortForward", nil)>>, <<>>)

\* OpenApiPortForwardStep with the debug branch returning nil once the port-forward
\* is open
OpenApiPortForwardStepReturns(s, rec) ==
    Step([s EXCEPT !.cluster1KubefirstApiStopChannel =
                       [made |-> TRUE, deferred |-> TRUE, forward |-> s.K1_LOCAL_DEBUG,
                        closes |-> 0],
                   !.pc = IF s.K1_LOCAL_DEBUG THEN "defers" ELSE After(s.pc),
                   !.retv = IF s.K1_LOCAL_DEBUG THEN nil ELSE @],
         rec,
         IF s.K1_LOCAL_DEBUG THEN <<Call("OpenApiPortForward", nil)>> ELSE <<>>,
         <<>>)

\* make(chan), defer close(cluster1KubefirstApiStopChannel); the port-forward to the
\* platform API is opened only when K1_LOCAL_DEBUG is non-empty
OpenApiPortForwardStep(s, rec) ==
    Step([s EXCEPT !.cluster1KubefirstApiStopChannel =
                       [made |-> TRUE, deferred |-> TRUE, forward |-> s.K1_LOCAL_DEBUG,
                        closes |-> 0],
                   !.pc = After(s.pc)],
         rec,
         IF s.K1_LOCAL_DEBUG THEN <<Call("OpenApiPortForward", nil)>> ELSE <<>>,
         <<>>)

\* segmentClient, err := SetupTelemetry(rec); on success defer segmentClient.Client.Close()
SetupTelemetryStep(s, rec, e) ==
    IF e # nil
    THEN Step([s EXCEPT !.err = e, !.pc = "defers", !.retv = e], rec,
              <<Call(s.pc, e)>>, <<>>)
    ELSE Step([s EXCEPT !.err = e, !.segmentClient = "open", !.pc = After(s.pc)], rec,
              <<Call(s.pc, e)>>, <<>>)

\* telemetryShim.Transmit(rec.UseTelemetry, segmentClient, MetricClusterInstallCompleted, "")
TransmitStep(s, rec, u) ==
    Step([s EXCEPT !.telemetry = TransmitMetric(u, @, "MetricClusterInstallCompleted"),
                   !.pc = After(s.pc)],
         rec, <<Call("Transmit", nil)>>, <<>>)

\* cl, _ := db.Client.GetCluster(name); err = services.AddDefaultServices(&cl), an error
\* is logged; return nil
AddDefaultServicesStep(s, rec, in) ==
    Step([s EXCEPT !.err = in.e, !.pc = "defers", !.retv = nil], rec,
         <<Call("GetCluster", in.g), Call("AddDefaultServices", in.e)>>, <<>>)

\* the deferred calls, last registered first
RunDeferredStep(s, rec) ==
    Step([s EXCEPT !.segmentClient = IF @ = "open" THEN "closed" ELSE @,
                   !.cluster1KubefirstApiStopChannel = IF @.deferred THEN Close(@) ELSE @,
                   !.vaultStopChannel = IF @.deferred THEN Close(@) ELSE @,
                   !.pc = "done"],
         rec, <<>>, <<>>)

\* the statement at s.pc, applied to the locals s and the record rec with outcomes in;
\* a run that has returned does nothing more
RunStep(s, rec, in) ==
    CASE s.pc \in HandledStages -> HandledStageStep(s, rec, in.e)
      [] s.pc \in UnhandledStages -> UnhandledStageStep(s, rec, in.e)
      [] s.pc = "MarkInProgress" -> RecordWriteStep(s, rec, in.e, "in_progress", TRUE)
      [] s.pc = "MarkProvisioned" ->
           RecordWriteStep(s, rec, in.e, "status", ClusterStatusProvisioned)
      [] s.pc = "MarkNotInProgress" -> RecordWriteStep(s, rec, in.e, "in_progress", FALSE)
      [] s.pc = "SSLRestoreCheck" -> SSLRestoreCheckStep(s, rec, in)
      [] s.pc = "OpenVaultPortForward" -> OpenVaultPortForwardStep(s, rec)
      [] s.pc = "OpenApiPortForward" -> OpenApiPortForwardStep(s, rec)
      [] s.pc = "SetupTelemetry" -> SetupTelemetryStep(s, rec, in.e)
      [] s.pc = "Transmit" -> TransmitStep(s, rec, in.u)
      [] s.pc = "AddDefaultServices" -> AddDefaultServicesStep(s, rec, in)
      [] s.pc = "defers" -> RunDeferredStep(s, rec)
      [] OTHER -> Step(s, rec, <<>>, <<>>)

\* the locals of the run of Spec, as RunStep sees them
Locals ==
    [ClusterName |-> "alpha",
     pc |-> pc,
     err |-> err,
     retv |-> retv,
     handled |-> handled,
     vaultStopChannel |-> vaultStopChannel,
     cluster1KubefirstApiStopChannel |-> cluster1KubefirstApiStopChannel,
     segmentClient |-> segmentClient,
     telemetry |-> telemetry,
     K1_LOCAL_DEBUG |-> K1_LOCAL_DEBUG,
     secretsFilesToRestore |-> secretsFilesToRestore]

\* RunStep agrees with the statements of Spec: every step of Spec is the step RunStep
\* takes from the same locals and record under some outcomes
RunStepAgrees ==
    [][\E in \in InputsOf(pc) :
          LET o == RunStep(Locals, record, in)
          IN  /\ Locals' = o.run
              /\ record' = o.rec
              /\ trace' = trace \o o.calls]_vars

\* and every step RunStep can take is a step of Spec
RunStepEnabled ==
    \A in \in InputsOf(pc) :
        pc # "done" =>
            ENABLED (LET o == RunStep(Locals, record, in)
                     IN  /\ Next
                         /\ Locals' = o.run
                         /\ record' = o.rec
                         /\ trace' = trace \o o.calls)

----------------------------------------------------------------------------
(* Two runs of CreateVultrCluster that differ only in K1_LOCAL_DEBUG *)

\* "plain" runs with K1_LOCAL_DEBUG empty, "debug" with it non-empty
DebugRuns == {"plain", "debug"}

DebugPairInit ==
    /\ PipelineIdle
    /\ AdjustIdle
    /\ runs = <<>>
    /\ store = <<>>
    /\ solo = [r \in DebugRuns |->
                 [run |-> InitRun("alpha", r = "debug"), rec |-> NewRecord]]
    /\ hist = [r \in DebugRuns |-> [calls |-> <<>>, writes |-> <<>>]]

\* both runs execute their next statement, each on a store of its own, and the calls
\* of the two runs return the same outcomes
StepBoth ==
    /\ \E r \in DebugRuns : solo[r].run.pc # "done"
    /\ \E in \in UNION {InputsOf(solo[r].run.pc) : r \in DebugRuns} :
         /\ solo' = [r \in DebugRuns |->
                       LET o == RunStep(solo[r].run, solo[r].rec, in)
                       IN  [run |-> o.run, rec |-> o.rec]]
         /\ hist' = [r \in DebugRuns |->
                       LET o == RunStep(solo[r].run, solo[r].rec, in)
                       IN  [calls |-> hist[r].calls \o o.calls,
                            writes |-> hist[r].writes \o o.writes]]
    /\ UNCHANGED <<pipelineVars, adjustVars, runs, store>>

\* the two runs side by side
SpecDebugPair == DebugPairInit /\ [][StepBoth]_vars

IsApiPortForward(c) == c.stage = "OpenApiPortForward"

IsStageInvocation(c) == ~IsApiPortForward(c)

\* C14: two runs with the same stage outcomes that differ only in K1_LOCAL_DEBUG make
\* the same stage invocations, the same ClusterRecord writes, emit the same telemetry
\* and return the same error; the only difference is that the run with the variable
\* non-empty opens one more port-forward, to the platform API, whose stop channel is
\* closed exactly once when the run returns
C14_DebugSwitchNoEffect ==
    LET plain == solo["plain"].run
        debug == solo["debug"].run
        api   == debug.cluster1KubefirstApiStopChannel
    IN  /\ plain.pc = debug.pc
        /\ SelectSeq(hist["debug"].calls, IsStageInvocation) = hist["plain"].calls
        /\ hist["debug"].writes = hist["plain"].writes
        /\ solo["debug"].rec = solo["plain"].rec
        /\ debug.telemetry = plain.telemetry
        /\ debug.retv = plain.retv
        /\ ~plain.cluster1KubefirstApiStopChannel.forward
        /\ Len(SelectSeq(hist["debug"].calls, IsApiPortForward)) = IF api.made THEN 1 ELSE 0
        /\ api.forward = (api.made /\ debug.pc # "done")
        /\ api.closes = IF api.made /\ debug.pc = "done" THEN 1 ELSE 0

\* both runs provisioned the cluster and returned nil; the debug run opened the
\* port-forward to the platform API and its stop channel was closed
C14_Witness ==
    /\ solo["plain"].run.pc = "done"
    /\ solo["debug"].run.pc = "done"
    /\ solo["debug"].run.retv = nil
    /\ solo["debug"].rec.status = ClusterStatusProvisioned
    /\ Len(hist["debug"].calls) = Len(hist["plain"].calls) + 1
    /\ solo["debug"].run.cluster1KubefirstApiStopChannel.closes = 1

----------------------------------------------------------------------------
(* Two runs of CreateVultrCluster for different cluster names, interleaved *)

ClusterNames == {"alpha", "beta"}

\* every run reading and writing the record of one and the same name
StoreKeyShared(s) == "alpha"

\* the key of every access to the record store: ctrl.ClusterName
StoreKey(s) == s.ClusterName

\* the statements that touch the record store: those that wrote a record, and the
\* reads of GetCurrentClusterRecord and db.Client.GetCluster
AccessesStore(p, o) ==
    o.writes # <<>> \/ p \in {"GetCurrentClusterRecord", "AddDefaultServices"}

\* one run per cluster name, none started, in one process environment
TwoRunsInit ==
    /\ PipelineIdle
    /\ AdjustIdle
    /\ \E debug \in BOOLEAN :
         /\ runs = [r \in ClusterNames |-> InitRun(r, debug)]
         /\ solo = [r \in ClusterNames |-> [run |-> InitRun(r, debug), rec |-> NewRecord]]
    /\ store = [n \in ClusterNames |-> NewRecord]
    /\ hist = [r \in ClusterNames |-> {}]

\* run r executes its next statement on the shared store; solo[r] executes the same
\* statement with the same outcomes on a store of its own
StepRun(r) ==
    /\ runs[r].pc # "done"
    /\ \E in \in InputsOf(runs[r].pc) :
         LET k == StoreKey(runs[r])
             o == RunStep(runs[r], store[k], in)
             a == RunStep(solo[r].run, solo[r].rec, in)
         IN  /\ runs' = [runs EXCEPT ![r] = o.run]
             /\ store' = [store EXCEPT ![k] = o.rec]
             /\ solo' = [solo EXCEPT ![r] = [run |-> a.run, rec |-> a.rec]]
             /\ hist' = [hist EXCEPT
                           ![r] = IF AccessesStore(runs[r].pc, o) THEN @ \cup {k} ELSE @]
    /\ UNCHANGED <<pipelineVars, adjustVars>>

TwoRunsNext == \E r \in ClusterNames : StepRun(r)

\* the two runs interleaved in any order
SpecTwoRuns == TwoRunsInit /\ [][TwoRunsNext]_vars

\* C15: when two runs for different cluster names are interleaved in any order, each
\* run reads and writes only the ClusterRecord keyed by its own cluster name, and the
\* final record of each cluster equals the record the run produces when executed alone
\* with the same stage outcomes
C15_RunsIndependent ==
    \A r \in ClusterNames :
        /\ hist[r] \subseteq {runs[r].ClusterName}
        /\ runs[r].pc = "done" =>
             /\ solo[r].run.pc = "done"
             /\ store[runs[r].ClusterName] = solo[r].rec
             /\ runs[r].retv = solo[r].run.retv

\* both runs returned, one with its cluster provisioned and one with its cluster failed,
\* and each accessed the store under its own name
C15_Witness ==
    /\ \A r \in ClusterNames : runs[r].pc = "done" /\ hist[r] = {r}
    /\ store["alpha"].status = ClusterStatusProvisioned
    /\ store["beta"].status = "failed"
    /\ store["beta"].error = "quota exceeded"

====
